---- MODULE Spec2Model ----
(***************************************************************************)
(* Model of scripts/generate-metadata.js: the incremental photo-metadata   *)
(* generator.  The state is the file system the script works on (the       *)
(* photos tree, the thumbnails tree, metadata.json) plus a record of what  *)
(* the last run of generateMetadata did.  One action is one whole run of   *)
(* generateMetadata; the other actions are the edits somebody makes to the *)
(* file system between two runs.                                           *)
(*                                                                         *)
(* Not modelled: `generated` (a wall-clock stamp), `id`, `url` and         *)
(* `thumbnailUrl` (pure functions of the path that no decision reads).     *)
(***************************************************************************)
EXTENDS Integers, Sequences, FiniteSets, TLC

VARIABLES files, unreadable, thumbs, snapshot, outFault, last, since, quiet, changes

vars == <<files, unreadable, thumbs, snapshot, outFault, last, since, quiet, changes>>

(***************************************************************************)
(* Bounds of the model.                                                    *)
(***************************************************************************)
\* file-system edits made over a behaviour
MaxChanges == 2
\* consecutive undisturbed successful runs that are told apart
QuietCap == 2

(***************************************************************************)
(* The universe of files.  A relative path "2024/x.jpg" is kept as its     *)
(* directory segments, its base name and its extension, so that split("/") *)
(* and the extension regexp can be computed.                               *)
(***************************************************************************)
Path(d, b, e) == [dir |-> d, base |-> b, ext |-> e]

Root == <<>>

\* the files that may exist under photos/, in the order readdirSync lists them
P2024xj == Path(<<"2024">>, "x", "jpg")
P2024xp == Path(<<"2024">>, "x", "png")
Pctor == Path(<<"constructor">>, "w", "jpg")
Pz == Path(Root, "z", "jpg")

Paths == {P2024xj, P2024xp, Pctor, Pz}

\* readdirSync(dir): sub-directories and files of dir, sorted by name
DirEntries(d) ==
    CASE d = Root -> << [isDir |-> TRUE, dir |-> <<"2024">>],
                        [isDir |-> TRUE, dir |-> <<"constructor">>],
                        [isDir |-> FALSE, path |-> Pz] >>
      [] d = <<"2024">> -> << [isDir |-> FALSE, path |-> P2024xj],
                              [isDir |-> FALSE, path |-> P2024xp] >>
      [] d = <<"constructor">> -> << [isDir |-> FALSE, path |-> Pctor] >>
      [] OTHER -> << >>

\* the nodes of the photos tree that can be made unreadable
BlockNodes == { [isDir |-> TRUE, dir |-> Root],
                [isDir |-> TRUE, dir |-> <<"2024">>],
                [isDir |-> FALSE, path |-> P2024xj] }

\* file contents, named by their MD5
\*   c1  a valid 800x600 JPEG with an EXIF block
\*   c2  a valid 400x400 PNG without EXIF
\*   c3  a zero-byte file: sharp(...).metadata() rejects
\*   c4  a valid 800x600 JPEG whose pixel data cannot be rendered
Contents == {"c1", "c2", "c3", "c4"}

\* modification times: an older and a newer one
Times == {1, 2}

NoFile == [hash |-> "none", modified |-> 0]

FileStates == {NoFile} \cup [hash : Contents, modified : Times]

\* stat.size of a file holding content c
SizeOf(c) == CASE c = "c1" -> 5 [] c = "c2" -> 3 [] c = "c3" -> 0 [] c = "c4" -> 7

IMAGE_EXTENSIONS == {"jpg", "jpeg", "png", "webp", "gif"}

calculateFileHash(c) == c

(***************************************************************************)
(* JavaScript values.                                                      *)
(***************************************************************************)
\* undefined: a field a record does not have
Absent == [absent |-> TRUE]
Null == [null |-> TRUE]

\* a variant of Truthy that takes the empty object {} for a missing value
Truthy_EmptyIsFalsy(v) == v # Absent /\ v # Null /\ v # [empty |-> TRUE]

\* the operand of || is kept when it is truthy; every object is truthy
Truthy(v) == v # Absent /\ v # Null

(***************************************************************************)
(* The three probes.  Their outcome is decided by the bytes of the file.   *)
(***************************************************************************)
\* sharp(file).metadata() resolves
MetaOK(c) == c # "c3"

\* sharp(...).resize(...).jpeg(...).toFile(...) resolves
RenderOK(c) == c \in {"c1", "c2"}

SrcWidth(c) == IF c = "c2" THEN 400 ELSE 800
SrcHeight(c) == IF c = "c2" THEN 400 ELSE 600
SrcFormat(c) == IF c = "c2" THEN "png" ELSE "jpeg"

\* the value of the catch branch of getImageDimensions
UnknownDimensions == [width |-> 0, height |-> 0, format |-> "unknown"]

\* a variant of getImageDimensions whose catch branch returns null
getImageDimensions_NullOnError(c) ==
    IF MetaOK(c)
    THEN [width |-> SrcWidth(c), height |-> SrcHeight(c), format |-> SrcFormat(c)]
    ELSE Null

getImageDimensions(c) ==
    IF MetaOK(c)
    THEN [width |-> SrcWidth(c), height |-> SrcHeight(c), format |-> SrcFormat(c)]
    ELSE UnknownDimensions

\* the object literal {}
EmptyExif == [empty |-> TRUE]

\* metadata.exif is present and ExifReader.load parses it
HasExif(c) == c \in {"c1", "c4"}

extractExifData(c) ==
    IF MetaOK(c) /\ HasExif(c)
    THEN [camera |-> "Canon EOS", iso |-> 100]
    ELSE EmptyExif

targetWidth == 600

\* Math.round(targetWidth / (w / h))
TargetHeight(w, h) == (2 * targetWidth * h + w) \div (2 * w)

\* the width and height of the file that resize(targetWidth, targetHeight,
\* {fit: "inside", withoutEnlargement: true}) writes for a source of content
\* c: a source that fits the box is not enlarged
WrittenWidth(c) ==
    IF SrcWidth(c) <= targetWidth /\ SrcHeight(c) <= TargetHeight(SrcWidth(c), SrcHeight(c))
    THEN SrcWidth(c) ELSE targetWidth

WrittenHeight(c) ==
    IF SrcWidth(c) <= targetWidth /\ SrcHeight(c) <= TargetHeight(SrcWidth(c), SrcHeight(c))
    THEN SrcHeight(c) ELSE TargetHeight(SrcWidth(c), SrcHeight(c))

\* fs.statSync(outputPath).size of the thumbnail rendered from c
ThumbBytes(c) == IF c = "c2" THEN 2 ELSE 4

NoThumb == "none"

\* generateThumbnail(inputPath, outputPath): the returned value and the
\* thumbnails tree after the call; th maps a thumbnail path to the content
\* its file was rendered from
generateThumbnail(c, tp, th) ==
    IF MetaOK(c) /\ RenderOK(c)
    THEN [info |-> [width |-> targetWidth,
                    height |-> TargetHeight(SrcWidth(c), SrcHeight(c)),
                    size |-> ThumbBytes(c)],
          thumbs |-> [th EXCEPT ![tp] = c]]
    ELSE [info |-> Null, thumbs |-> th]

(***************************************************************************)
(* scanDirectory                                                           *)
(***************************************************************************)
FileEntry(p, f) ==
    [path |-> p, name |-> <<p.base, p.ext>>, size |-> SizeOf(f.hash),
     modified |-> f.modified, hash |-> calculateFileHash(f.hash)]

\* a directory is on disk when a file lives under it
DirExists(d, fs) == \E p \in Paths : p.dir = d /\ fs[p] # NoFile

RECURSIVE ScanEntries(_, _, _, _, _)
\* the for loop of scanDirectory over entries[i..]; a throw inside the loop
\* ends the loop, and the items pushed so far are returned
ScanEntries(entries, i, items, fs, bad) ==
    IF i > Len(entries) THEN items
    ELSE LET e == entries[i] IN
         IF e.isDir
         THEN IF ~DirExists(e.dir, fs)
              THEN ScanEntries(entries, i + 1, items, fs, bad)
              ELSE LET sub == IF e \in bad THEN << >>
                              ELSE ScanEntries(DirEntries(e.dir), 1, << >>, fs, bad)
                   IN ScanEntries(entries, i + 1, items \o sub, fs, bad)
         ELSE IF fs[e.path] = NoFile
              THEN ScanEntries(entries, i + 1, items, fs, bad)
              ELSE IF e.path.ext \notin IMAGE_EXTENSIONS
                   THEN ScanEntries(entries, i + 1, items, fs, bad)
                   ELSE IF e \in bad
                        THEN items
                        ELSE ScanEntries(entries, i + 1,
                                         Append(items, FileEntry(e.path, fs[e.path])),
                                         fs, bad)

scanDirectory(fs, bad) ==
    IF [isDir |-> TRUE, dir |-> Root] \in bad THEN << >>
    ELSE ScanEntries(DirEntries(Root), 1, << >>, fs, bad)

(***************************************************************************)
(* metadata.json                                                           *)
(***************************************************************************)
NoSnapshot == [kind |-> "none"]

\* what metadata.json can hold besides a document written by a run
\*   invalid     text that is not JSON
\*   nonobject   the JSON value null
\*   nophotos    an object without `photos`
\*   notarray    an object whose `photos` is the number 5
\*   nullelem    an object whose `photos` is [null]
\*   nonobjelem  an object whose `photos` is [5]
CorruptKinds == {"invalid", "nonobject", "nophotos", "notarray", "nullelem", "nonobjelem"}

\* a file that writeFileSync truncated and did not finish
Partial == [kind |-> "partial"]

\* the element 5 of a `photos` array: every property of it is undefined
NonObjectElem == [path |-> Absent, hash |-> Absent]

ArrayOf(ps) == [type |-> "array", photos |-> ps]

\* the value loadExistingMetadata returns for the file content s
loadExistingMetadata(s) ==
    CASE s.kind = "doc" -> ArrayOf(s.photos)
      [] s.kind = "notarray" -> [type |-> "number"]
      [] s.kind = "nullelem" -> [type |-> "arrayWithNull"]
      [] s.kind = "nonobjelem" -> ArrayOf(<< NonObjectElem >>)
      [] OTHER -> ArrayOf(<< >>)

\* existingPhotos.map((p) => [p.path, p]) throws a TypeError
MapThrows(existing) == existing.type # "array"

NoRecord == [found |-> FALSE]

RECURSIVE MapGetFrom(_, _, _)
MapGetFrom(ps, i, path) ==
    IF i = 0 THEN NoRecord
    ELSE IF ps[i].path = path THEN ps[i]
         ELSE MapGetFrom(ps, i - 1, path)

\* existingPhotoMap.get(path): new Map keeps the last entry of a key
MapGet(existing, path) == MapGetFrom(existing.photos, Len(existing.photos), path)

(***************************************************************************)
(* The per-photo body of the loop of generateMetadata.                     *)
(***************************************************************************)
\* photo.path.split("/")
PathParts(p) == p.dir \o << p.base >>

Category(p) == IF Len(PathParts(p)) > 1 THEN PathParts(p)[1] ELSE "uncategorized"

\* photo.path.replace(/\.[^.]+$/, ".jpg")
ThumbRelPath(p) == [p EXCEPT !.ext = "jpg"]

ThumbPaths == {ThumbRelPath(p) : p \in Paths}

\* a variant of IsNewOrModified that also compares the modification time
IsNewOrModified_Mtime(existingPhoto, photo) ==
    \/ existingPhoto = NoRecord
    \/ existingPhoto.hash # photo.hash
    \/ existingPhoto.modified # photo.modified

IsNewOrModified(existingPhoto, photo) ==
    existingPhoto = NoRecord \/ existingPhoto.hash # photo.hash

\* a variant of MissingThumbnail that looks at the thumbnails tree as it was
\* when the run started
MissingThumbnail_BeforeRun(tp, th) == thumbs[tp] = NoThumb

\* fs.existsSync(thumbAbsPath)
MissingThumbnail(tp, th) == th[tp] = NoThumb

\* the object pushed to processedPhotos
AssetRecord(photo, dimensions, exif, thumbnailInfo) ==
    [path |-> photo.path, name |-> photo.name,
     category |-> Category(photo.path), size |-> photo.size,
     modified |-> photo.modified, hash |-> photo.hash,
     dimensions |-> dimensions, exif |-> exif, thumbnail |-> thumbnailInfo]

\* the record pushed for photo, the thumbnails tree after it, and the
\* probes that were called
ProcessPhoto(photo, existing, th) ==
    LET existingPhoto == MapGet(existing, photo.path)
        tp == ThumbRelPath(photo.path)
        fresh == IsNewOrModified(existingPhoto, photo)
        missing == MissingThumbnail(tp, th)
        callDim == fresh \/ ~Truthy(existingPhoto.dimensions)
        callExif == fresh \/ ~Truthy(existingPhoto.exif)
        callThumb == fresh \/ missing
        gen == generateThumbnail(photo.hash, tp, th)
        dimensions == IF callDim THEN getImageDimensions(photo.hash)
                      ELSE existingPhoto.dimensions
        exif == IF callExif THEN extractExifData(photo.hash)
                ELSE existingPhoto.exif
        thumbnailInfo == IF callThumb THEN gen.info
                         ELSE IF Truthy(existingPhoto.thumbnail)
                              THEN existingPhoto.thumbnail ELSE Null
    IN [record |-> AssetRecord(photo, dimensions, exif, thumbnailInfo),
        thumbs |-> IF callThumb THEN gen.thumbs ELSE th,
        dim |-> IF callDim THEN {photo.path} ELSE {},
        exif |-> IF callExif THEN {photo.path} ELSE {},
        thumb |-> IF callThumb THEN {photo.path} ELSE {},
        io |-> (IF callDim THEN << "getImageDimensions" >> ELSE << >>)
               \o (IF callExif THEN << "extractExifData" >> ELSE << >>)
               \o (IF callThumb THEN << "generateThumbnail" >> ELSE << >>)]

RECURSIVE ProcessLoop(_, _, _, _)
\* for (const photo of allPhotos) { ... }
ProcessLoop(allPhotos, i, existing, acc) ==
    IF i > Len(allPhotos) THEN acc
    ELSE LET r == ProcessPhoto(allPhotos[i], existing, acc.thumbs)
         IN ProcessLoop(allPhotos, i + 1, existing,
                [photos |-> Append(acc.photos, r.record),
                 thumbs |-> r.thumbs,
                 dimCalls |-> acc.dimCalls \cup r.dim,
                 exifCalls |-> acc.exifCalls \cup r.exif,
                 thumbCalls |-> acc.thumbCalls \cup r.thumb,
                 io |-> acc.io \o r.io])

\* a variant of ProcessAll that starts from the records of the prior snapshot
ProcessAll_CarryForward(allPhotos, existing, th) ==
    ProcessLoop(allPhotos, 1, existing,
                [photos |-> existing.photos, thumbs |-> th,
                 dimCalls |-> {}, exifCalls |-> {}, thumbCalls |-> {}, io |-> << >>])

\* a variant of ProcessAll that first removes the thumbnail files no scanned
\* item maps to
ProcessAll_PruneOrphans(allPhotos, existing, th) ==
    ProcessLoop(allPhotos, 1, existing,
                [photos |-> << >>,
                 thumbs |-> [tp \in DOMAIN th |->
                               IF \E i \in DOMAIN allPhotos :
                                     ThumbRelPath(allPhotos[i].path) = tp
                               THEN th[tp] ELSE NoThumb],
                 dimCalls |-> {}, exifCalls |-> {}, thumbCalls |-> {}, io |-> << >>])

ProcessAll(allPhotos, existing, th) ==
    ProcessLoop(allPhotos, 1, existing,
                [photos |-> << >>, thumbs |-> th,
                 dimCalls |-> {}, exifCalls |-> {}, thumbCalls |-> {}, io |-> << >>])

(***************************************************************************)
(* Sorting and aggregation.                                                *)
(***************************************************************************)
RECURSIVE InsertDesc(_, _, _)
\* order lists indices by descending key; n goes behind every index whose key
\* is not smaller
InsertDesc(order, n, keys) ==
    IF order = << >> THEN << n >>
    ELSE IF keys[Head(order)] >= keys[n]
         THEN << Head(order) >> \o InsertDesc(Tail(order), n, keys)
         ELSE << n >> \o order

RECURSIVE OrderDesc(_, _)
OrderDesc(keys, n) ==
    IF n = 0 THEN << >> ELSE InsertDesc(OrderDesc(keys, n - 1), n, keys)

\* Array.prototype.sort((a, b) => key(b) - key(a)), which is stable
SortDescBy(seq, keys) ==
    LET order == OrderDesc(keys, Len(seq))
    IN [i \in 1..Len(seq) |-> seq[order[i]]]

\* a variant of SortPhotos whose sort is not stable: records with equal
\* `modified` come out in reverse
SortPhotos_TiesReversed(ps) ==
    LET rev == [i \in 1..Len(ps) |-> ps[Len(ps) + 1 - i]]
    IN SortDescBy(rev, [i \in 1..Len(rev) |-> rev[i].modified])

SortPhotos(ps) == SortDescBy(ps, [i \in 1..Len(ps) |-> ps[i].modified])

\* property names every object literal inherits from Object.prototype
ObjectPrototypeKeys ==
    {"constructor", "toString", "valueOf", "hasOwnProperty", "__proto__"}

\* property names that are array indices: Object.values lists them first,
\* in ascending numeric order
IsArrayIndex(c) == c = "2024"
IndexValue(c) == IF c = "2024" THEN 2024 ELSE 0

HasOwn(m, c) == \E i \in 1..Len(m) : m[i].name = c

\* one pass of the loop that fills categoriesMap; m lists the own
\* properties of categoriesMap in insertion order
AddToCategory(m, p) ==
    LET c == IF p.category # "" THEN p.category ELSE "uncategorized"
    IN IF ~HasOwn(m, c) /\ c \in ObjectPrototypeKeys
       THEN m
       ELSE LET m1 == IF HasOwn(m, c) THEN m
                      ELSE Append(m, [name |-> c, photoCount |-> 0, totalSize |-> 0])
            IN [i \in 1..Len(m1) |->
                  IF m1[i].name = c
                  THEN [m1[i] EXCEPT !.photoCount = @ + 1, !.totalSize = @ + p.size]
                  ELSE m1[i]]

RECURSIVE CategoriesMap(_, _)
CategoriesMap(ps, n) ==
    IF n = 0 THEN << >> ELSE AddToCategory(CategoriesMap(ps, n - 1), ps[n])

\* Object.values(categoriesMap)
ObjectValues(m) ==
    LET idx == SelectSeq(m, LAMBDA e : IsArrayIndex(e.name))
        str == SelectSeq(m, LAMBDA e : ~IsArrayIndex(e.name))
    IN SortDescBy(idx, [i \in 1..Len(idx) |-> 0 - IndexValue(idx[i].name)]) \o str

SortedCategories(ps) ==
    LET vals == ObjectValues(CategoriesMap(ps, Len(ps)))
    IN SortDescBy(vals, [i \in 1..Len(vals) |-> vals[i].photoCount])

RECURSIVE SumSize(_, _)
\* processedPhotos.reduce((sum, p) => sum + p.size, 0)
SumSize(ps, n) == IF n = 0 THEN 0 ELSE SumSize(ps, n - 1) + ps[n].size

Metadata(processedPhotos) ==
    [kind |-> "doc",
     totalPhotos |-> Len(processedPhotos),
     totalSize |-> SumSize(processedPhotos, Len(processedPhotos)),
     categories |-> SortedCategories(processedPhotos),
     photos |-> processedPhotos]

EmptyMetadata ==
    [kind |-> "doc", totalPhotos |-> 0, totalSize |-> 0,
     categories |-> << >>, photos |-> << >>]

(***************************************************************************)
(* fs.writeFileSync(outputFile, ...): it opens the file truncating it and  *)
(* then writes.  "ok" the document is on disk; "openfail" the open threw   *)
(* (the file is read-only) and the file is as it was; "partial" a write    *)
(* threw after the truncation (the disk is full).                          *)
(***************************************************************************)
WriteOutcomes == {"ok", "openfail", "partial"}

WriteFaults == WriteOutcomes \ {"ok"}

WriteFileSync(old, doc, w) ==
    CASE w = "ok" -> doc
      [] w = "openfail" -> old
      [] w = "partial" -> Partial

(***************************************************************************)
(* The state.                                                              *)
(*   files      the photos tree: what each path holds                      *)
(*   unreadable the nodes of the photos tree that cannot be read           *)
(*   thumbs     the thumbnails tree: the content each thumbnail was        *)
(*              rendered from                                              *)
(*   snapshot   metadata.json                                              *)
(*   outFault   what a write of metadata.json will end in                  *)
(*   last       what the last run of generateMetadata read, called and     *)
(*              returned; io lists, in the order of the code, its accesses *)
(*              to metadata.json, its probe calls and its post-pass        *)
(*   since      the edits of the file system since the last run            *)
(*   quiet      successful runs since the last edit of the file system     *)
(*   changes    edits of the file system so far                            *)
(***************************************************************************)
NoRun ==
    [status |-> "none", exitCode |-> 0, prevStatus |-> "none", edits |-> {},
     writeFault |-> "ok", unreadable |-> {},
     before |-> NoSnapshot, allPhotos |-> << >>,
     thumbsBefore |-> [tp \in ThumbPaths |-> NoThumb],
     dimCalls |-> {}, exifCalls |-> {}, thumbCalls |-> {}, io |-> << >>]

\* the repositories a behaviour starts from: an empty photos tree, one with
\* three photos, and one with a zero-byte file next to a photo of the same
\* base name
EmptyTree == [p \in Paths |-> NoFile]

SeedTree ==
    [p \in Paths |->
        CASE p = P2024xj -> [hash |-> "c1", modified |-> 1]
          [] p = P2024xp -> [hash |-> "c2", modified |-> 2]
          [] p = Pz -> [hash |-> "c4", modified |-> 2]
          [] OTHER -> NoFile]

FaultyTree ==
    [p \in Paths |->
        CASE p = P2024xj -> [hash |-> "c3", modified |-> 1]
          [] p = P2024xp -> [hash |-> "c2", modified |-> 2]
          [] OTHER -> NoFile]

SeedTrees == {EmptyTree, SeedTree, FaultyTree}

Init ==
    /\ files \in SeedTrees
    /\ unreadable = {}
    /\ thumbs = [tp \in ThumbPaths |-> NoThumb]
    /\ snapshot = NoSnapshot
    /\ outFault = "ok"
    /\ last = NoRun
    /\ since = {}
    /\ quiet = 0
    /\ changes = 0

\* one run of generateMetadata, from the load of metadata.json to the
\* write of the new one and the exit code of the process
generateMetadata ==
        LET w == outFault
            existing == loadExistingMetadata(snapshot)
            allPhotos == scanDirectory(files, unreadable)
            done == ProcessAll(allPhotos, existing, thumbs)
            processedPhotos == SortPhotos(done.photos)
            io == IF allPhotos = << >> THEN << "writeFileSync" >>
                  ELSE done.io \o << "sort", "categories", "writeFileSync" >>
            base == [NoRun EXCEPT !.before = snapshot, !.thumbsBefore = thumbs,
                                  !.prevStatus = last.status, !.edits = since,
                                  !.writeFault = outFault, !.unreadable = unreadable]
        IN /\ UNCHANGED <<files, unreadable, outFault, changes>>
           /\ since' = {}
           /\ IF MapThrows(existing)
              THEN /\ UNCHANGED <<thumbs, snapshot>>
                   /\ last' = [base EXCEPT !.status = "threw", !.exitCode = 1,
                                           !.io = << "loadExistingMetadata" >>]
                   /\ quiet' = 0
              ELSE /\ thumbs' = IF allPhotos = << >> THEN thumbs ELSE done.thumbs
                   /\ snapshot' = WriteFileSync(snapshot,
                                      IF allPhotos = << >> THEN EmptyMetadata
                                      ELSE Metadata(processedPhotos), w)
                   /\ last' = [base EXCEPT
                                 !.status = IF w = "ok" THEN "ok" ELSE "threw",
                                 !.exitCode = IF w = "ok" THEN 0 ELSE 1,
                                 !.allPhotos = allPhotos,
                                 !.dimCalls = IF allPhotos = << >> THEN {} ELSE done.dimCalls,
                                 !.exifCalls = IF allPhotos = << >> THEN {} ELSE done.exifCalls,
                                 !.thumbCalls = IF allPhotos = << >> THEN {} ELSE done.thumbCalls,
                                 !.io = << "loadExistingMetadata" >> \o io]
                   /\ quiet' = IF w # "ok" THEN 0
                               ELSE IF quiet < QuietCap THEN quiet + 1 ELSE quiet

(***************************************************************************)
(* Edits of the file system between two runs.                              *)
(***************************************************************************)
Edit(event) ==
    /\ changes < MaxChanges
    /\ changes' = changes + 1
    /\ since' = since \cup {event}
    /\ quiet' = 0
    /\ UNCHANGED last

\* a file is added, overwritten or touched
WriteFile(p, c, t) ==
    /\ Edit([op |-> "writeFile", path |-> p])
    /\ files[p] # [hash |-> c, modified |-> t]
    /\ files' = [files EXCEPT ![p] = [hash |-> c, modified |-> t]]
    /\ UNCHANGED <<unreadable, thumbs, snapshot, outFault>>

DeleteFile(p) ==
    /\ Edit([op |-> "deleteFile", path |-> p])
    /\ files[p] # NoFile
    /\ files' = [files EXCEPT ![p] = NoFile]
    /\ UNCHANGED <<unreadable, thumbs, snapshot, outFault>>

DeleteThumbnail(tp) ==
    /\ Edit([op |-> "deleteThumbnail", path |-> tp, was |-> thumbs[tp]])
    /\ thumbs[tp] # NoThumb
    /\ thumbs' = [thumbs EXCEPT ![tp] = NoThumb]
    /\ UNCHANGED <<files, unreadable, snapshot, outFault>>

\* metadata.json is replaced by something no run wrote
CorruptSnapshot(k) ==
    /\ Edit([op |-> "corruptSnapshot"])
    /\ snapshot # [kind |-> k]
    /\ snapshot' = [kind |-> k]
    /\ UNCHANGED <<files, unreadable, thumbs, outFault>>

\* the fields of a record that an older or hand-edited snapshot may lack
DerivedFields == {"dimensions", "exif", "thumbnail"}

\* the record r without its field f
Without(r, f) ==
    CASE f = "dimensions" -> [r EXCEPT !.dimensions = Absent]
      [] f = "exif" -> [r EXCEPT !.exif = Absent]
      [] f = "thumbnail" -> [r EXCEPT !.thumbnail = Absent]

\* metadata.json is rewritten so that none of its records has the field f
StripField(f) ==
    /\ Edit([op |-> "stripField", field |-> f])
    /\ snapshot.kind = "doc"
    /\ snapshot.photos # << >>
    /\ snapshot' = [snapshot EXCEPT !.photos =
                       [i \in DOMAIN snapshot.photos |-> Without(snapshot.photos[i], f)]]
    /\ snapshot' # snapshot
    /\ UNCHANGED <<files, unreadable, thumbs, outFault>>

\* the permissions of a node of the photos tree are flipped
Chmod(n) ==
    /\ Edit([op |-> "chmod"])
    /\ unreadable' = IF n \in unreadable THEN unreadable \ {n} ELSE unreadable \cup {n}
    /\ UNCHANGED <<files, thumbs, snapshot, outFault>>

\* metadata.json becomes read-only, or the disk fills up, or either is undone
SetWriteFault(f) ==
    /\ Edit([op |-> "setWriteFault"])
    /\ outFault # f
    /\ outFault' = f
    /\ UNCHANGED <<files, unreadable, thumbs, snapshot>>

Next ==
    \/ generateMetadata
    \/ \E p \in Paths, c \in Contents, t \in Times : WriteFile(p, c, t)
    \/ \E p \in Paths : DeleteFile(p)
    \/ \E tp \in ThumbPaths : DeleteThumbnail(tp)
    \/ \E k \in CorruptKinds : CorruptSnapshot(k)
    \/ \E f \in DerivedFields : StripField(f)
    \/ \E n \in BlockNodes : Chmod(n)
    \/ \E f \in WriteOutcomes : SetWriteFault(f)

Spec == Init /\ [][Next]_vars

(***************************************************************************)
(* The revision of the script in src/unnamed/part_001: the scan comes      *)
(* first and has no try, the prior snapshot is parsed with no try, the     *)
(* category is split("/")[0] and a thumbnail is named <base>_thumb.<ext>.  *)
(***************************************************************************)
\* the name of the file with base b and extension e
FileName(b, e) ==
    CASE b = "x" /\ e = "jpg" -> "x.jpg"
      [] b = "x" /\ e = "png" -> "x.png"
      [] b = "w" /\ e = "jpg" -> "w.jpg"
      [] b = "z" /\ e = "jpg" -> "z.jpg"

\* p.path.split("/"): the directories and the file name
Segments(p) == p.dir \o << FileName(p.base, p.ext) >>

\* p.path.split("/")[0] || "uncategorized"
RevCategory(p) == IF Segments(p)[1] # "" THEN Segments(p)[1] ELSE "uncategorized"

\* p.path.replace(ext, "_thumb.png") or p.path.replace(ext, "_thumb.jpg")
RevThumbRelPath(p) ==
    [p EXCEPT !.ext = IF p.ext \in {"png", "gif"} THEN "_thumb.png" ELSE "_thumb.jpg"]

RevThumbPaths == {RevThumbRelPath(p) : p \in Paths}

RECURSIVE WalkEntries(_, _, _, _, _)
\* readdirSync(dir).flatMap(...) over entries[i..]: nothing catches, so a
\* throw of readdirSync, statSync or md5 ends the walk
WalkEntries(entries, i, items, fs, bad) ==
    IF i > Len(entries) THEN [threw |-> FALSE, items |-> items]
    ELSE LET e == entries[i] IN
         IF e.isDir
         THEN IF ~DirExists(e.dir, fs)
              THEN WalkEntries(entries, i + 1, items, fs, bad)
              ELSE IF e \in bad
                   THEN [threw |-> TRUE, items |-> << >>]
                   ELSE LET sub == WalkEntries(DirEntries(e.dir), 1, << >>, fs, bad)
                        IN IF sub.threw THEN sub
                           ELSE WalkEntries(entries, i + 1, items \o sub.items, fs, bad)
         ELSE IF fs[e.path] = NoFile \/ e.path.ext \notin IMAGE_EXTENSIONS
              THEN WalkEntries(entries, i + 1, items, fs, bad)
              ELSE IF e \in bad
                   THEN [threw |-> TRUE, items |-> << >>]
                   ELSE WalkEntries(entries, i + 1,
                                    Append(items, FileEntry(e.path, fs[e.path])),
                                    fs, bad)

walk(fs, bad) ==
    IF [isDir |-> TRUE, dir |-> Root] \in bad THEN [threw |-> TRUE, items |-> << >>]
    ELSE WalkEntries(DirEntries(Root), 1, << >>, fs, bad)

\* JSON.parse(fs.readFileSync(outFile, "utf8")).photos || [] followed by
\* new Map(prev.map((p) => [p.path, p])) throws
RevLoadThrows(s) == s.kind \in {"invalid", "nonobject", "notarray", "nullelem", "partial"}

\* prev, when the load does not throw
RevPrev(s) ==
    CASE s.kind = "doc" -> ArrayOf(s.photos)
      [] s.kind = "nonobjelem" -> ArrayOf(<< NonObjectElem >>)
      [] OTHER -> ArrayOf(<< >>)

\* the operand of ?? is kept unless it is null or undefined
NotNullish(v) == v # Absent /\ v # Null

\* makeThumb(src, dst): the returned value and the thumbnails tree after it
makeThumb(c, tp, th) ==
    IF MetaOK(c) /\ RenderOK(c)
    THEN [info |-> [width |-> targetWidth,
                    height |-> TargetHeight(SrcWidth(c), SrcHeight(c)),
                    size |-> ThumbBytes(c)],
          thumbs |-> [th EXCEPT ![tp] = c]]
    ELSE [info |-> Null, thumbs |-> th]

\* one pass of the loop over photos
RevProcessPhoto(p, prev, th) ==
    LET cached == MapGet(prev, p.path)
        changed == cached = NoRecord \/ cached.hash # p.hash
        tp == RevThumbRelPath(p.path)
        needThumb == changed \/ th[tp] = NoThumb
        callDim == changed \/ ~NotNullish(cached.dimensions)
        callExif == changed \/ ~NotNullish(cached.exif)
        gen == makeThumb(p.hash, tp, th)
    IN [record |->
           [path |-> p.path, name |-> p.name, category |-> RevCategory(p.path),
            size |-> p.size, modified |-> p.modified, hash |-> p.hash,
            dimensions |-> IF callDim THEN getImageDimensions(p.hash)
                           ELSE cached.dimensions,
            exif |-> IF callExif THEN extractExifData(p.hash) ELSE cached.exif,
            thumbnail |-> IF needThumb THEN gen.info ELSE cached.thumbnail],
        thumbs |-> IF needThumb THEN gen.thumbs ELSE th,
        dim |-> IF callDim THEN {p.path} ELSE {},
        exif |-> IF callExif THEN {p.path} ELSE {},
        thumb |-> IF needThumb THEN {p.path} ELSE {},
        io |-> (IF callDim THEN << "getImageDimensions" >> ELSE << >>)
               \o (IF callExif THEN << "extractExifData" >> ELSE << >>)
               \o (IF needThumb THEN << "generateThumbnail" >> ELSE << >>)]

RECURSIVE RevProcessLoop(_, _, _, _)
RevProcessLoop(photos, i, prev, acc) ==
    IF i > Len(photos) THEN acc
    ELSE LET r == RevProcessPhoto(photos[i], prev, acc.thumbs)
         IN RevProcessLoop(photos, i + 1, prev,
                [photos |-> Append(acc.photos, r.record),
                 thumbs |-> r.thumbs,
                 dimCalls |-> acc.dimCalls \cup r.dim,
                 exifCalls |-> acc.exifCalls \cup r.exif,
                 thumbCalls |-> acc.thumbCalls \cup r.thumb,
                 io |-> acc.io \o r.io])

RevInit ==
    /\ files \in SeedTrees
    /\ unreadable = {}
    /\ thumbs = [tp \in RevThumbPaths |-> NoThumb]
    /\ snapshot = NoSnapshot
    /\ outFault = "ok"
    /\ last = [NoRun EXCEPT !.thumbsBefore = [tp \in RevThumbPaths |-> NoThumb]]
    /\ since = {}
    /\ quiet = 0
    /\ changes = 0

\* one run of the script of part_001, from the scan to the write of
\* metadata.json; a throw rejects the promise of the async function, which
\* nothing handles, and the process ends with exit code 1
RevMain ==
        LET scan == walk(files, unreadable)
            photos == scan.items
            prev == RevPrev(snapshot)
            done == RevProcessLoop(photos, 1, prev,
                        [photos |-> << >>, thumbs |-> thumbs,
                         dimCalls |-> {}, exifCalls |-> {}, thumbCalls |-> {},
                         io |-> << >>])
            base == [NoRun EXCEPT !.before = snapshot, !.thumbsBefore = thumbs,
                                  !.prevStatus = last.status, !.edits = since,
                                  !.writeFault = outFault, !.unreadable = unreadable]
            ok == [base EXCEPT !.status = IF outFault = "ok" THEN "ok" ELSE "threw",
                               !.exitCode = IF outFault = "ok" THEN 0 ELSE 1,
                               !.allPhotos = photos]
            good == IF outFault # "ok" THEN 0
                    ELSE IF quiet < QuietCap THEN quiet + 1 ELSE quiet
        IN /\ UNCHANGED <<files, unreadable, outFault, changes>>
           /\ since' = {}
           /\ IF scan.threw
              THEN /\ UNCHANGED <<thumbs, snapshot>>
                   /\ last' = [base EXCEPT !.status = "threw", !.exitCode = 1]
                   /\ quiet' = 0
              ELSE IF photos = << >>
              THEN /\ UNCHANGED thumbs
                   /\ snapshot' = WriteFileSync(snapshot, EmptyMetadata, outFault)
                   /\ last' = [ok EXCEPT !.io = << "writeFileSync" >>]
                   /\ quiet' = good
              ELSE IF RevLoadThrows(snapshot)
              THEN /\ UNCHANGED <<thumbs, snapshot>>
                   /\ last' = [base EXCEPT !.status = "threw", !.exitCode = 1,
                                           !.allPhotos = photos,
                                           !.io = << "readFileSync" >>]
                   /\ quiet' = 0
              ELSE /\ thumbs' = done.thumbs
                   /\ snapshot' = WriteFileSync(snapshot,
                                      Metadata(SortPhotos(done.photos)), outFault)
                   /\ last' = [ok EXCEPT !.dimCalls = done.dimCalls,
                                         !.exifCalls = done.exifCalls,
                                         !.thumbCalls = done.thumbCalls,
                                         !.io = << "readFileSync" >> \o done.io \o
                                                << "sort", "categories", "writeFileSync" >>]
                   /\ quiet' = good

RevDeleteThumbnail(tp) ==
    /\ Edit([op |-> "deleteThumbnail", path |-> tp, was |-> thumbs[tp]])
    /\ thumbs[tp] # NoThumb
    /\ thumbs' = [thumbs EXCEPT ![tp] = NoThumb]
    /\ UNCHANGED <<files, unreadable, snapshot, outFault>>

RevNext ==
    \/ RevMain
    \/ \E p \in Paths, c \in Contents, t \in Times : WriteFile(p, c, t)
    \/ \E p \in Paths : DeleteFile(p)
    \/ \E tp \in RevThumbPaths : RevDeleteThumbnail(tp)
    \/ \E k \in CorruptKinds : CorruptSnapshot(k)
    \/ \E n \in BlockNodes : Chmod(n)

SpecRev == RevInit /\ [][RevNext]_vars

(***************************************************************************)
(* Properties of generateMetadata.                                         *)
(***************************************************************************)
Range(seq) == {seq[i] : i \in DOMAIN seq}

\* generateMetadata has run
Ran == last.status # "none"

\* generateMetadata has run and nothing was edited since
AfterRun == Ran /\ since = {}

\* the last run ended with exit code 0 and nothing was edited since: the
\* snapshot on disk is the one it wrote
AfterGoodRun == quiet >= 1

\* the last run and the run before it ended with exit code 0, and nothing
\* was edited between them or since
AfterSecondRun == quiet >= 2

ScannedPaths == {e.path : e \in Range(last.allPhotos)}

\* the emitted records of a path
RecordsOf(path) == {r \in Range(snapshot.photos) : r.path = path}

RecordOf(path) == CHOOSE r \in RecordsOf(path) : TRUE

\* the records of the snapshot the last run found
PriorPhotos == IF last.before.kind = "doc" THEN last.before.photos ELSE << >>

\* the records the prior snapshot held for a path
PriorOf(path) == {r \in Range(PriorPhotos) : r.path = path}

\* no prior record of the path, or its hash differs
Changed(e) == \A r \in PriorOf(e.path) : r.hash # e.hash

AllCalls == last.dimCalls \cup last.exifCalls \cup last.thumbCalls

RootNode == [isDir |-> TRUE, dir |-> Root]

\* C1 as stated: a second run on an unchanged file tree writes the same
\* `photos` and calls none of getImageDimensions, extractExifData and
\* generateThumbnail, also when probes of some items fail.
C1_SecondRunCallsNoProbe ==
    AfterSecondRun =>
        /\ snapshot.photos = last.before.photos
        /\ AllCalls = {}

\* C1 amended: a second run on an unchanged file tree writes the same
\* `photos`, calls neither getImageDimensions nor extractExifData, and calls
\* generateThumbnail for exactly the items that have no thumbnail file on
\* disk, whose render fails again and leaves their thumbnail null.
C1_Idempotent ==
    AfterSecondRun =>
        /\ snapshot.photos = last.before.photos
        /\ last.dimCalls = {}
        /\ last.exifCalls = {}
        /\ last.thumbCalls =
              {p \in ScannedPaths : last.thumbsBefore[[p EXCEPT !.ext = "jpg"]] = NoThumb}
        /\ \A p \in last.thumbCalls : RecordOf(p).thumbnail = Null
        /\ thumbs = last.thumbsBefore

\* a second run over two photos or more, one with a thumbnail and one whose
\* render failed
C1_Witness ==
    /\ AfterSecondRun
    /\ Len(snapshot.photos) >= 2
    /\ last.thumbCalls # {}
    /\ \E r \in Range(snapshot.photos) : r.thumbnail # Null
    /\ \E r \in Range(snapshot.photos) : r.exif = EmptyExif

\* C2: an item is treated as changed exactly when the prior snapshot has no
\* record of its path or that record's hash differs, whatever its size and
\* modification time; a changed item has its dimensions and EXIF probed
\* afresh, an unchanged item whose prior record holds both gets them copied
\* with no probe called, and after one file is overwritten only that item is
\* probed.
C2_ChangeDetection ==
    /\ \A e \in Range(last.allPhotos) :
          /\ Changed(e) => e.path \in last.dimCalls /\ e.path \in last.exifCalls
          /\ (/\ ~Changed(e)
              /\ \A r \in PriorOf(e.path) :
                    /\ r.dimensions \notin {Absent, Null}
                    /\ r.exif \notin {Absent, Null})
             => /\ e.path \notin last.dimCalls
                /\ e.path \notin last.exifCalls
                /\ AfterGoodRun =>
                      \A r \in PriorOf(e.path) :
                          /\ RecordOf(e.path).dimensions = r.dimensions
                          /\ RecordOf(e.path).exif = r.exif
          /\ (AfterGoodRun /\ Changed(e)) =>
                /\ RecordOf(e.path).dimensions.format =
                      (IF e.hash = "c3" THEN "unknown"
                       ELSE IF e.hash = "c2" THEN "png" ELSE "jpeg")
    /\ \A p \in Paths :
          (last.prevStatus = "ok" /\ last.edits = {[op |-> "writeFile", path |-> p]})
             => last.dimCalls \cup last.exifCalls \subseteq {p}

\* after a run that followed the touch of one photo and the overwrite of
\* another: the touched one is not probed, the overwritten one is
C2_Witness ==
    /\ AfterGoodRun
    /\ \E e \in Range(last.allPhotos) :
          /\ ~Changed(e)
          /\ \E r \in PriorOf(e.path) : r.modified # e.modified
          /\ e.path \notin last.dimCalls \cup last.exifCalls
    /\ \E e \in Range(last.allPhotos) :
          /\ PriorOf(e.path) # {}
          /\ Changed(e)
          /\ e.path \in last.dimCalls \cap last.exifCalls

\* C3: when the thumbnail file of one unchanged item was deleted between two
\* runs and nothing else changed, the second run calls generateThumbnail for
\* that item and no other, and leaves the thumbnail file and the recorded
\* thumbnail of every other item as they were; also for two photos that
\* differ only in their extension.  (Stated for trees whose photos all
\* render, so that every item had a thumbnail before the deletion.)
C3_ThumbnailSelfHealing ==
    \A tp \in ThumbPaths, was \in Contents :
        (/\ AfterGoodRun
         /\ last.prevStatus = "ok"
         /\ last.edits = {[op |-> "deleteThumbnail", path |-> tp, was |-> was]}
         /\ \E e \in Range(last.allPhotos) : [e.path EXCEPT !.ext = "jpg"] = tp
         /\ \A e \in Range(last.allPhotos) :
               /\ e.hash \in {"c1", "c2"}
               /\ ~Changed(e)
               /\ \A r \in PriorOf(e.path) : r.thumbnail \notin {Absent, Null})
        => \E healed \in ScannedPaths :
              /\ [healed EXCEPT !.ext = "jpg"] = tp
              /\ last.thumbCalls = {healed}
              /\ \A q \in ScannedPaths \ {healed} :
                    /\ thumbs[[q EXCEPT !.ext = "jpg"]] =
                          (IF [q EXCEPT !.ext = "jpg"] = tp THEN was
                           ELSE last.thumbsBefore[[q EXCEPT !.ext = "jpg"]])
                    /\ \A r \in PriorOf(q) : RecordOf(q).thumbnail = r.thumbnail

\* C4: the `photos` of the written snapshot are in one-to-one correspondence
\* with the entries of the current scan: one record per scanned path, none
\* for a path that is not scanned (a deleted file), and path, name, size,
\* modified and hash are those of the current entry.
C4_PhotosMatchScan ==
    AfterGoodRun =>
        /\ Len(snapshot.photos) = Len(last.allPhotos)
        /\ snapshot.totalPhotos = Len(last.allPhotos)
        /\ \A e \in Range(last.allPhotos) :
              /\ Cardinality(RecordsOf(e.path)) = 1
              /\ RecordOf(e.path).name = e.name
              /\ RecordOf(e.path).size = e.size
              /\ RecordOf(e.path).modified = e.modified
              /\ RecordOf(e.path).hash = e.hash
        /\ \A r \in Range(snapshot.photos) :
              /\ r.path \in ScannedPaths
              /\ files[r.path] # NoFile
              /\ r.hash = files[r.path].hash
              /\ r.modified = files[r.path].modified
        /\ unreadable = {} =>
              \A p \in Paths : files[p] # NoFile => RecordsOf(p) # {}

\* after a run that followed the deletion of one photo and the touch of
\* another: the deleted one has no record, the touched one keeps its derived
\* fields and carries the new modification time
C4_Witness ==
    /\ AfterGoodRun
    /\ \E r \in Range(PriorPhotos) : RecordsOf(r.path) = {}
    /\ \E r \in Range(PriorPhotos) :
          /\ RecordsOf(r.path) # {}
          /\ r.path \notin AllCalls
          /\ RecordOf(r.path).modified # r.modified

RECURSIVE SumOver(_, _, _)
\* the sum of Val(x) over the elements x of the finite set S
SumOver(S, Val(_), acc) ==
    IF S = {} THEN acc
    ELSE LET x == CHOOSE y \in S : TRUE
         IN SumOver(S \ {x}, Val, acc + Val(x))

\* C5: `categories` is the group-by of the emitted `photos` on `category`:
\* every category of a photo appears exactly once, with photoCount the number
\* of its photos (at least 1) and totalSize the sum of their sizes; the counts
\* add up to totalPhotos and the sizes to totalSize.
C5_CategoriesGroupPhotos ==
    AfterGoodRun =>
        LET ps == snapshot.photos
            cs == snapshot.categories
            In(c) == {i \in DOMAIN ps : ps[i].category = c}
        IN /\ \A i \in DOMAIN ps :
                 Cardinality({j \in DOMAIN cs : cs[j].name = ps[i].category}) = 1
           /\ \A j \in DOMAIN cs :
                 /\ cs[j].photoCount = Cardinality(In(cs[j].name))
                 /\ cs[j].photoCount >= 1
                 /\ cs[j].totalSize = SumOver(In(cs[j].name), LAMBDA i : ps[i].size, 0)
           /\ SumOver(DOMAIN cs, LAMBDA j : cs[j].photoCount, 0) = snapshot.totalPhotos
           /\ SumOver(DOMAIN cs, LAMBDA j : cs[j].totalSize, 0) = snapshot.totalSize
           /\ snapshot.totalPhotos = Len(ps)

\* the entries of the last scan with the content of entry i replaced by a
\* content every probe succeeds on
WithProbesSucceeding(i) == [last.allPhotos EXCEPT ![i].hash = "c1"]

\* C6: a failing probe degrades its field of its item to the sentinel
\* ({0, 0, "unknown"}, {}, null) and nothing else: the item is emitted, the
\* run does not throw, totalPhotos is the number of scanned files, and the
\* other items come out as in a run where the probes of that item succeed.
C6_FailureIsolation ==
    /\ (Ran /\ last.status = "threw") =>
          \/ last.writeFault # "ok"
          \/ last.before.kind \in {"notarray", "nullelem"}
    /\ AfterGoodRun =>
          /\ snapshot.totalPhotos = Len(last.allPhotos)
          /\ \A e \in Range(last.allPhotos) :
                /\ RecordsOf(e.path) # {}
                /\ (e.path \in last.dimCalls /\ e.hash = "c3")
                      => RecordOf(e.path).dimensions =
                            [width |-> 0, height |-> 0, format |-> "unknown"]
                /\ (e.path \in last.dimCalls /\ e.hash # "c3")
                      => RecordOf(e.path).dimensions.width > 0
                /\ (e.path \in last.exifCalls /\ e.hash \in {"c2", "c3"})
                      => RecordOf(e.path).exif = EmptyExif
                /\ (e.path \in last.exifCalls /\ e.hash \in {"c1", "c4"})
                      => RecordOf(e.path).exif # EmptyExif
                /\ (e.path \in last.thumbCalls /\ e.hash \in {"c3", "c4"})
                      => RecordOf(e.path).thumbnail = Null
                /\ (e.path \in last.thumbCalls /\ e.hash \in {"c1", "c2"})
                      => RecordOf(e.path).thumbnail # Null
          /\ \A i \in DOMAIN last.allPhotos :
                LET other == ProcessAll(WithProbesSucceeding(i), ArrayOf(PriorPhotos),
                                        last.thumbsBefore).photos
                IN \A j \in DOMAIN last.allPhotos \ {i} :
                      RecordOf(last.allPhotos[j].path) = other[j]

\* after a run over a zero-byte file, a file that only fails to render and a
\* sound file
C6_Witness ==
    /\ AfterGoodRun
    /\ \E r \in Range(snapshot.photos) :
          /\ r.path \in last.dimCalls
          /\ r.hash = "c3"
          /\ r.thumbnail = Null
    /\ \E r \in Range(snapshot.photos) :
          /\ r.path \in last.thumbCalls
          /\ r.hash = "c4"
          /\ r.thumbnail = Null
          /\ r.dimensions.width > 0
    /\ \E r \in Range(snapshot.photos) :
          /\ r.thumbnail # Null
          /\ r.dimensions.width > 0

\* C7: whatever metadata.json holds that is not a well-formed snapshot, the
\* run treats it as no prior snapshot: every scanned item is processed as new
\* and the run ends writing a snapshot.
C7_CorruptSnapshotNeverFatal ==
    (Ran /\ last.before.kind \in CorruptKinds \cup {"partial"} /\ last.writeFault = "ok")
       => /\ last.status = "ok"
          /\ last.dimCalls = ScannedPaths
          /\ last.exifCalls = ScannedPaths
          /\ last.thumbCalls = ScannedPaths

\* C8: the exit code is non-zero exactly when the photos directory could not
\* be read or metadata.json could not be written.
C8_ExitStatus ==
    (Ran /\ last.before.kind \notin {"notarray", "nullelem"})
       => (last.exitCode # 0 <=> (RootNode \in last.unreadable \/ last.writeFault # "ok"))

\* C9: when the scan finds no image, the run writes the empty snapshot over
\* whatever metadata.json held, throws nothing and calls no probe.
C9_EmptySnapshotWhenNoImages ==
    (AfterRun /\ scanDirectory(files, unreadable) = << >> /\ last.writeFault = "ok")
       => /\ snapshot = EmptyMetadata
          /\ last.exitCode = 0
          /\ AllCalls = {}

\* C10: after a run, also one whose write failed, metadata.json holds either
\* what it held before the run or the complete new snapshot.
C10_WriteAllOrNothing ==
    AfterRun => (snapshot = last.before \/ snapshot.kind = "doc")

\* the position of a path in the last scan
ScanIndex(path) == CHOOSE i \in DOMAIN last.allPhotos : last.allPhotos[i].path = path

\* C11: the `photos` of a written snapshot are ordered by `modified`
\* descending, and two records with equal `modified` are in the order in
\* which the tree walk met them.
C11_PhotosNewestFirst ==
    AfterGoodRun =>
        \A i, j \in DOMAIN snapshot.photos :
            i < j =>
               /\ snapshot.photos[i].modified >= snapshot.photos[j].modified
               /\ snapshot.photos[i].modified = snapshot.photos[j].modified
                     => ScanIndex(snapshot.photos[i].path) <
                           ScanIndex(snapshot.photos[j].path)

\* a snapshot of three photos or more in which the sort moved a record
\* forward and two records tie
C11_Witness ==
    /\ AfterGoodRun
    /\ Len(snapshot.photos) >= 3
    /\ \E i, j \in DOMAIN snapshot.photos :
          /\ i < j
          /\ snapshot.photos[i].modified = snapshot.photos[j].modified
    /\ \E i, j \in DOMAIN snapshot.photos :
          /\ i < j
          /\ ScanIndex(snapshot.photos[i].path) > ScanIndex(snapshot.photos[j].path)

\* the position in `photos` of the first record of category c
FirstIndex(c) ==
    CHOOSE i \in DOMAIN snapshot.photos :
        /\ snapshot.photos[i].category = c
        /\ \A k \in DOMAIN snapshot.photos :
              snapshot.photos[k].category = c => i <= k

\* C12: the `categories` of a written snapshot are ordered by photoCount
\* descending, and two categories with equal photoCount are in the order in
\* which `photos` first meets them, also when a category name is a string
\* of decimal digits.
C12_CategoriesByCount ==
    AfterGoodRun =>
        \A i, j \in DOMAIN snapshot.categories :
            i < j =>
               LET a == snapshot.categories[i]
                   b == snapshot.categories[j]
               IN /\ a.photoCount >= b.photoCount
                  /\ a.photoCount = b.photoCount
                        => FirstIndex(a.name) < FirstIndex(b.name)

\* the thumbnail file of the photo at path p
ThumbFile(p) == [p EXCEPT !.ext = "jpg"]

\* the scanned entries processed before entry e
EarlierThan(e) ==
    {d \in Range(last.allPhotos) : ScanIndex(d.path) < ScanIndex(e.path)}

\* no file was at the thumbnail path of e when e was processed: none was
\* there when the run started and no earlier item of the run rendered one
ThumbAbsentWhenProcessed(e) ==
    /\ last.thumbsBefore[ThumbFile(e.path)] = NoThumb
    /\ \A d \in EarlierThan(e) :
          ThumbFile(d.path) = ThumbFile(e.path) => d.hash \notin {"c1", "c2"}

\* a missing thumbnail field and a null one are the one value "no thumbnail"
ThumbValue(v) == IF v = Absent THEN Null ELSE v

\* C13: generateThumbnail is called for a scanned item exactly when the item
\* is changed or no file is at its thumbnail path when it is processed,
\* whatever thumbnail the prior record holds; an item it is not called for
\* keeps the thumbnail value of its prior record.
C13_ThumbnailPolicy ==
    /\ Ran =>
          \A e \in Range(last.allPhotos) :
              e.path \in last.thumbCalls <=> (Changed(e) \/ ThumbAbsentWhenProcessed(e))
    /\ AfterGoodRun =>
          \A e \in Range(last.allPhotos) :
              e.path \notin last.thumbCalls =>
                 \A r \in PriorOf(e.path) :
                     RecordOf(e.path).thumbnail = ThumbValue(r.thumbnail)

\* after a run in which an unchanged item with a recorded thumbnail was
\* rendered again because its file was gone, and another unchanged item
\* with no recorded thumbnail was not rendered because a file was there
C13_Witness ==
    /\ AfterGoodRun
    /\ \E e \in Range(last.allPhotos) :
          /\ ~Changed(e)
          /\ e.path \in last.thumbCalls
          /\ \E r \in PriorOf(e.path) : r.thumbnail \notin {Absent, Null}
    /\ \E e \in Range(last.allPhotos) :
          /\ ~Changed(e)
          /\ e.path \notin last.thumbCalls
          /\ \E r \in PriorOf(e.path) : r.thumbnail \in {Absent, Null}

\* C14: for an unchanged item whose prior record has no dimensions or no
\* exif, or holds the empty exif {} that a failed extractExifData left, the
\* probe of that field is called again in this run.
C14_LazyBackfill ==
    Ran =>
        \A e \in Range(last.allPhotos) :
            ~Changed(e) =>
               \A r \in PriorOf(e.path) :
                   /\ r.dimensions \in {Absent, Null} => e.path \in last.dimCalls
                   /\ r.exif \in {Absent, Null} => e.path \in last.exifCalls
                   /\ (r.exif = EmptyExif /\ e.hash = "c3") => e.path \in last.exifCalls

\* the file at p and every directory above it can be read
Readable(p) ==
    /\ [isDir |-> FALSE, path |-> p] \notin last.unreadable
    /\ [isDir |-> TRUE, dir |-> p.dir] \notin last.unreadable
    /\ RootNode \notin last.unreadable

\* C15: when a subdirectory or an entry cannot be read, the scan still
\* returns every image file that is outside the failing subtree or entry,
\* the siblings listed after a failing entry included.
C15_ScanFailureIsolation ==
    (AfterRun /\ last.before.kind \notin {"notarray", "nullelem"}) =>
        \A p \in Paths :
            (files[p] # NoFile /\ Readable(p)) => p \in ScannedPaths

\* C16: the category of every emitted record is the first segment of its
\* path when the path has more than one segment and "uncategorized" when the
\* image is directly in the tree root; in generateMetadata and in the
\* revision of part_001.
C16_CategoryAssignment ==
    AfterGoodRun =>
        \A r \in Range(snapshot.photos) :
            r.category = (IF r.path.dir # Root THEN r.path.dir[1] ELSE "uncategorized")

Probes == {"getImageDimensions", "extractExifData", "generateThumbnail"}

\* the positions of the event ev in the accesses of the last run
At(ev) == {i \in DOMAIN last.io : last.io[i] = ev}

\* C17: a run loads metadata.json exactly once and writes it exactly once;
\* the load comes before every probe call, the write after the last probe
\* call and after the sort and the aggregation, and nothing reads or writes
\* metadata.json in between.
C17_ReadOnceWriteOnce ==
    (Ran /\ last.writeFault = "ok") =>
        /\ At("loadExistingMetadata") = {1}
        /\ At("writeFileSync") = {Len(last.io)}
        /\ Len(last.io) >= 2
        /\ \A i \in DOMAIN last.io :
              last.io[i] \in Probes \cup {"sort", "categories"}
                 => 1 < i /\ i < Len(last.io)
        /\ \A i \in At("sort") \cup At("categories"), j \in DOMAIN last.io :
              last.io[j] \in Probes => j < i

\* C18: the thumbnail info that generateThumbnail returns on success gives
\* the width and height of the file it wrote: the height is
\* round(targetWidth / (srcWidth / srcHeight)) for the reported width, and
\* neither exceeds the source's, also for a source narrower than 600.
C18_ThumbnailInfoIsTrue ==
    AfterGoodRun =>
        \A r \in Range(snapshot.photos) :
            (r.path \in last.thumbCalls /\ r.thumbnail # Null) =>
               /\ 2 * r.thumbnail.width * SrcHeight(r.hash) + SrcWidth(r.hash)
                     >= 2 * SrcWidth(r.hash) * r.thumbnail.height
               /\ 2 * r.thumbnail.width * SrcHeight(r.hash) - SrcWidth(r.hash)
                     < 2 * SrcWidth(r.hash) * r.thumbnail.height
               /\ r.thumbnail.width <= SrcWidth(r.hash)
               /\ r.thumbnail.height <= SrcHeight(r.hash)
               /\ r.thumbnail.width = WrittenWidth(r.hash)
               /\ r.thumbnail.height = WrittenHeight(r.hash)

\* C19: every record of the latest snapshot whose thumbnail is not null has
\* a file at its thumbnail path, that file was rendered from the content
\* whose hash the record holds, and no two records share a thumbnail path.
C19_ThumbnailsMatchRecords ==
    AfterGoodRun =>
        /\ \A r \in Range(snapshot.photos) :
              r.thumbnail # Null => thumbs[ThumbFile(r.path)] = r.hash
        /\ \A r, q \in Range(snapshot.photos) :
              r.path # q.path => ThumbFile(r.path) # ThumbFile(q.path)

\* no other path of the tree has the thumbnail path of p
OwnThumbFile(p) == \A q \in Paths \ {p} : ThumbFile(q) # ThumbFile(p)

\* C20: when the prior snapshot records a null thumbnail for an item and the
\* source is unchanged, the run calls generateThumbnail for that item again.
\* (Stated for the items whose thumbnail path no other source shares.)
C20_FailedRenderRetried ==
    Ran =>
        \A e \in Range(last.allPhotos) :
            (/\ OwnThumbFile(e.path)
             /\ ~Changed(e)
             /\ \E r \in PriorOf(e.path) : r.thumbnail = Null)
            => e.path \in last.thumbCalls

\* what one run may touch: the photos tree and its permissions are as they
\* were, no thumbnail file is removed, and a thumbnail file differs after the
\* run only if the run called generateThumbnail for an item it is the
\* thumbnail path of
RunFrame ==
    /\ files' = files
    /\ unreadable' = unreadable
    /\ \A tp \in ThumbPaths :
        /\ thumbs[tp] # NoThumb => thumbs'[tp] # NoThumb
        /\ thumbs'[tp] # thumbs[tp] =>
              \E p \in last'.thumbCalls : ThumbRelPath(p) = tp

\* the thumbnail of a source that is no longer in the tree is still on disk
\* after the run
OrphansKept ==
    \A p \in Paths :
        (files[p] = NoFile /\ thumbs[ThumbRelPath(p)] # NoThumb)
            => thumbs'[ThumbRelPath(p)] # NoThumb

\* C21: a run of generateMetadata deletes or modifies no file of the photos
\* tree and deletes no thumbnail file; besides metadata.json it writes only
\* the thumbnail files of the items it calls generateThumbnail for, so the
\* thumbnail of a source deleted from the tree stays on disk after the run
\* that drops the source's record.
C21_RunWritesOnlyItsOutputs ==
    [][generateMetadata => (RunFrame /\ OrphansKept)]_vars

\* a source with a thumbnail on disk was deleted, the next run dropped its
\* record and called generateThumbnail for another item, and the thumbnail of
\* the deleted source is still there
C21_Witness ==
    /\ AfterGoodRun
    /\ last.thumbCalls # {}
    /\ \E e \in last.edits :
        /\ e.op = "deleteFile"
        /\ files[e.path] = NoFile
        /\ RecordsOf(e.path) = {}
        /\ PriorOf(e.path) # {}
        /\ \A q \in ScannedPaths : ThumbRelPath(q) # ThumbRelPath(e.path)
        /\ last.thumbsBefore[ThumbRelPath(e.path)] # NoThumb
        /\ thumbs[ThumbRelPath(e.path)] = last.thumbsBefore[ThumbRelPath(e.path)]

====
